---- MODULE Spec2Model ----
(***************************************************************************)
(* Model of mozillapackager.py (Ubuntuzilla packager): BaseStarter.start,  *)
(* MozillaInstaller.start and the methods it sequences, for the four       *)
(* product variants.  External commands, web pages, files on disk and the  *)
(* operator's keystrokes are the environment: each is drawn from a small   *)
(* set at the step that reads it.                                          *)
(***************************************************************************)
EXTENDS Integers, Sequences, FiniteSets, TLC

VARIABLES
    options,          \* parsed command line (BaseStarter.ParseOptions)
    pc,               \* position of the single thread of control
    attrs,            \* instance attributes that have been assigned so far
    releaseVersion,   \* self.releaseVersion, a sequence of tokens
    confirmed,        \* the operator (or the unattended auto-answer) accepted releaseVersion
    packageFilename,  \* self.packageFilename
    sigFilename,      \* self.sigFilename
    fetch,            \* the mirror loop in progress (robustDownload or the name probe)
    keyloop,          \* the keyserver loop of getMozillaGPGKey
    disk,             \* the files the run reads and writes under /tmp and the deb directory
    expected,         \* digests that the manifest downloaded in this run records for the artifact
    rc,               \* return codes of gpg --verify and sha512sum/md5sum -c (-1: not run)
    calls,            \* methods of the installer entered so far, in order
    commands,         \* external side-effecting commands that were really executed
    stdout,           \* what start() printed for action getversion
    exitCode,         \* -1 while running, else the process exit status
    failure           \* why the run ended

vars == <<options, pc, attrs, releaseVersion, confirmed, packageFilename,
          sigFilename, fetch, keyloop, disk, expected, rc, calls, commands,
          stdout, exitCode, failure>>

----------------------------------------------------------------------------
(* Bounds of the model *)

\* how many mirrors the operator prepends with -m to the default list
MaxExtraMirrors == 1
\* how many lines a downloaded checksum manifest holds at most
MaxManifestLen == 2

----------------------------------------------------------------------------
(* Command line: ParseOptions *)

Packages == {"firefox", "firefox-esr", "thunderbird", "seamonkey"}
Actions == {"getversion", "builddeb", "adddebtorepo", "uploadrepo", "cleanup", "all"}

DefaultMirrors == <<"http://releases.mozilla.org/pub/", "https://archive.seamonkey-project.org">>
UserMirrors == <<"ftp://mirror-a/pub/", "ftp://mirror-b/pub/", "ftp://mirror-c/pub/">>

DefaultKeyservers ==
    <<"subkeys.pgp.net", "pgpkeys.mit.edu", "pgp.mit.edu", "wwwkeys.pgp.net",
      "keymaster.veridis.com">>

\* prepend_callback: each -m inserts at position 0 of the default list
MirrorList(k) == SubSeq(UserMirrors, 1, k) \o DefaultMirrors

DefaultArch == "i686"

OptionSets ==
    [package : Packages, action : Actions, skipgpg : BOOLEAN,
     unattended : BOOLEAN, test : BOOLEAN, arch : {DefaultArch},
     mirrors : {MirrorList(k) : k \in 0..MaxExtraMirrors},
     keyservers : {DefaultKeyservers}]

----------------------------------------------------------------------------
(* Small value sets of the environment *)

Digests == {"d1", "d2"}
Keystrokes == {"y", "Y", "n", "N", "x"}

\* str.lower() on the one-letter answers
Lower(k) == CASE k = "Y" -> "y" [] k = "N" -> "n" [] OTHER -> k

Digit == "1"
IsDigit(t) == t = Digit

NoFile == [exists |-> FALSE, lines |-> <<>>]
File(ls) == [exists |-> TRUE, lines |-> ls]

IdleFetch == [what |-> "none", template |-> <<>>, idx |-> 0, tried |-> <<>>, result |-> "idle"]
IdleKeys == [round |-> 0, ks |-> 0, tried |-> <<>>, keySuccess |-> FALSE, listed |-> FALSE]

----------------------------------------------------------------------------
(* UtilityFunctions *)

\* execSystemCommand: `if (not self.options.test) or includewithtest`
\* a runner that ignores the dry-run flag
ExecutesAlways(test, includewithtest) == TRUE

Executes(test, includewithtest) == (~test) \/ includewithtest

\* execSystemCommand: `if returncode:` raises SystemCommandExecutionError
RaisesNever(returncode) == FALSE
Raises(returncode) == returncode # 0

\* verifyGPGSignature, verifyMD5Sum: `if returncode:` after os.system
FailedNever(returncode) == FALSE
Failed(returncode) == returncode # 0

\* re.sub("%mirror%", mirror, origexecstring) on a command line of tokens
ReSub(mirror, origexecstring) ==
    [i \in 1..Len(origexecstring) |->
        IF origexecstring[i] = "%mirror%" THEN mirror ELSE origexecstring[i]]

\* robustDownload: the for loop moves to the next mirror after a failed attempt;
\* 0 when the list is exhausted (the for's else branch)
NextMirrorSkipping(idx, mirrors) == IF idx + 1 < Len(mirrors) THEN idx + 2 ELSE 0
\* a mirror loop that starts over after the last mirror
NextMirrorAgain(idx, mirrors) == IF idx < Len(mirrors) THEN idx + 1 ELSE 1

NextMirror(idx, mirrors) == IF idx < Len(mirrors) THEN idx + 1 ELSE 0

\* robustDownload: the try block ends in `break` when execSystemCommand raised
\* nothing, which is so when the command exited 0 or was not run at all
BreaksNever(ok, runs) == FALSE
Breaks(ok, runs) == ok \/ ~runs

\* command templates handed to robustDownload
ArtifactTemplate(package) ==
    IF package = "seamonkey" THEN <<"wget -c", "packagelink">>
    ELSE <<"wget -c", "%mirror%", "releases/version/linux-arch/en-US/packageFilename">>
SumsTemplate == <<"wget -c", "%mirror%", "releases/version/SHA512SUMS">>
AscTemplate == <<"wget -c", "%mirror%", "releases/version/SHA512SUMS.asc">>
Md5Template == <<"wget -O -", "%mirror%", "/releases/version/MD5SUMS.txt | grep > MD5SUMS.txt">>

----------------------------------------------------------------------------
(* Version discovery: the regular expressions of the getLatestVersion methods *)

NoMatch == <<"re.search: None">>

RECURSIVE DigitsEnd(_, _)
\* [0-9]+ from position i: the first position that holds no digit
DigitsEnd(s, i) == IF i <= Len(s) /\ IsDigit(s[i]) THEN DigitsEnd(s, i + 1) ELSE i

RECURSIVE GroupsEnd(_, _)
\* further ".digits" groups after a run of digits that ends before position p
GroupsEnd(s, p) ==
    IF p <= Len(s) /\ s[p] = "." /\ DigitsEnd(s, p + 1) > p + 1
    THEN GroupsEnd(s, DigitsEnd(s, p + 1))
    ELSE p

\* ([0-9]+\.)+[0-9]+ matched at position i: the end of the greedy match, 0 if none
DottedEnd(s, i) ==
    LET a == DigitsEnd(s, i)
        b == GroupsEnd(s, a)
    IN IF a > i /\ b > a THEN b ELSE 0

\* literal prefixes of the patterns; "releases/" is also found inside "org/releases/"
HasMarker(package, t) ==
    CASE package = "thunderbird" -> t = "thunderbird/"
      [] package = "seamonkey" -> t = "org/releases/"
      [] OTHER -> t \in {"releases/", "org/releases/"}

\* the group captured when the pattern is tried right after the marker at position i
CaptureAt(package, s, i) ==
    CASE package = "thunderbird" ->
            LET ends == {j \in (i + 1)..Len(s) : s[j] = "/releasenotes"}
            IN IF ends = {} THEN NoMatch
               ELSE SubSeq(s, i + 1, (CHOOSE j \in ends : \A k \in ends : k <= j) - 1)
      [] package = "firefox-esr" ->
            LET e == DottedEnd(s, i + 1)
            IN IF e # 0 /\ e <= Len(s) /\ s[e] = "esr" THEN SubSeq(s, i + 1, e) ELSE NoMatch
      [] OTHER ->
            LET e == DottedEnd(s, i + 1)
            IN IF e # 0 THEN SubSeq(s, i + 1, e - 1) ELSE NoMatch

\* re.search(...).group(1): the leftmost position where the pattern matches
ExtractVersion(package, s) ==
    LET hits == {i \in 1..Len(s) : HasMarker(package, s[i]) /\ CaptureAt(package, s, i) # NoMatch}
    IN IF hits = {} THEN NoMatch
       ELSE CaptureAt(package, s, CHOOSE i \in hits : \A k \in hits : i <= k)

\* the first output line of the version query, as the vendor's pages may give it
PageLines ==
    { <<"Location:", "releases/", "1", ".", "1", "/">>,
      <<"Location:", "releases/", "1", ".", "1", "esr", "/">>,
      <<"thunderbird/", "1", ".", "1", "/releasenotes">>,
      <<"thunderbird/", "1", ".", "1", "b", "/releasenotes">>,
      <<"org/releases/", "1", ".", "1", "/", "linux">> }

\* what the operator may type at "Please enter the version ... or 'q' to quit"
TypedVersions == { <<>>, <<"1", ".", "1">> }
Quit == <<"q">>

\* the version-string shape each variant's pattern extracts
ShapeOK(package, v) ==
    CASE package = "thunderbird" -> TRUE
      [] package = "firefox-esr" ->
            Len(v) >= 1 /\ v[Len(v)] = "esr" /\ DottedEnd(v, 1) = Len(v)
      [] OTHER -> DottedEnd(v, 1) = Len(v) + 1

----------------------------------------------------------------------------
(* Checksum manifest: getMD5Sum, verifyMD5Sum *)

PackageFile == "package.tar.bz2"

\* getMD5Sum: firefox-esr releases live under firefox/
ReleaseDir(package) == IF package = "firefox-esr" THEN "firefox" ELSE package

ManifestLine(d, locale, product, sdk) ==
    [digest |-> d, arch |-> DefaultArch, locale |-> locale, product |-> product,
     ext |-> "tar.bz2", sdk |-> sdk,
     algo |-> IF product = "seamonkey" THEN "md5" ELSE "sha512"]

\* lines a manifest of the release directory of `package` may hold
ManifestLines(package) ==
    {ManifestLine(d, "en-US", ReleaseDir(package), FALSE) : d \in Digests}
        \cup {ManifestLine("d1", "de", ReleaseDir(package), FALSE)}

RECURSIVE SeqsUpTo(_, _)
SeqsUpTo(S, n) ==
    IF n = 0 THEN {<<>>}
    ELSE LET shorter == SeqsUpTo(S, n - 1)
         IN shorter \cup {Append(q, x) : q \in shorter, x \in S}

Manifests(package) == SeqsUpTo(ManifestLines(package), MaxManifestLen)

\* grep linux-<arch> | grep en-US | grep <package> | grep 'tar\.bz2\|xz' | grep -v sdk
Selected(l, arch, package) ==
    /\ l.arch = arch
    /\ l.locale = "en-US"
    /\ l.product = ReleaseDir(package)
    /\ l.ext \in {"tar.bz2", "xz"}
    /\ ~l.sdk

\* SeamonkeyInstaller.getMD5Sum:
\* grep -F 'linux-<arch>/en-US/<packageFilename>' | grep -F 'md5'
SelectedMD5(l, arch) ==
    /\ l.arch = arch
    /\ l.locale = "en-US"
    /\ l.product = "seamonkey"
    /\ l.algo = "md5"

\* Text of a line: a sequence of pieces, the piece " " being white space.
Space == " "

\* the directory part of a recorded path, linux-<arch>/en-US/
DirPiece == "linux-<arch>/en-US/"

RECURSIVE FieldEnd(_, _)
\* last position of the field of `line` that starts at or before position i
FieldEnd(line, i) ==
    IF i > Len(line) \/ line[i] = Space THEN i - 1 ELSE FieldEnd(line, i + 1)

RECURSIVE SplitFields(_)
\* awk's field splitting: runs of white space separate, none at the ends counts
SplitFields(line) ==
    IF line = <<>> THEN <<>>
    ELSE IF Head(line) = Space THEN SplitFields(Tail(line))
    ELSE LET e == FieldEnd(line, 1)
         IN <<SubSeq(line, 1, e)>> \o SplitFields(SubSeq(line, e + 1, Len(line)))

RECURSIVE JoinFields(_)
\* awk rebuilds $0 from the fields with one space between them
JoinFields(fs) ==
    IF fs = <<>> THEN <<>>
    ELSE IF Len(fs) = 1 THEN fs[1]
    ELSE fs[1] \o <<Space>> \o JoinFields(Tail(fs))

RECURSIVE Expand(_, _)
\* the replacement text of gsub: & stands for the matched text
Expand(repl, matched) ==
    IF repl = <<>> THEN <<>>
    ELSE (IF Head(repl) = "&" THEN matched ELSE <<Head(repl)>>)
             \o Expand(Tail(repl), matched)

\* a rewrite that appends the name instead of replacing the second field
AwkAppend(line, name) == line \o <<Space>> \o name

\* awk '{gsub(".*", "<packageFilename>", $2); print $0}' on the text of a line
AwkRewrite(line, name) ==
    LET f == SplitFields(line)
        f1 == IF Len(f) >= 1 THEN f[1] ELSE <<>>
        f2 == IF Len(f) >= 2 THEN f[2] ELSE <<>>
    IN JoinFields(<<f1, Expand(name, f2)>> \o SubSeq(f, 3, Len(f)))

\* sed 's#md5.*linux-<arch>/en-US/##' on the text of a line: the leftmost md5
\* up to the last directory part is deleted
SedText(line) ==
    LET I == {i \in 1..Len(line) : line[i] = "md5"}
        J == {j \in 1..Len(line) : line[j] = DirPiece}
    IN IF I = {} \/ J = {} THEN line
       ELSE LET i == CHOOSE x \in I : \A y \in I : x <= y
                j == CHOOSE x \in J : \A y \in J : x >= y
            IN IF i < j THEN SubSeq(line, 1, i - 1) \o SubSeq(line, j + 1, Len(line))
               ELSE line

\* the text of a SHA512SUMS line: digest, two spaces, recorded path
TextOf(l) == <<l.digest, Space, Space, "./", DirPiece, "<remote file>">>

\* the text of an MD5SUMS line as the grep pipeline stores it
TextOfMD5(l, name) == <<l.digest, Space, "md5", Space, "<size>", Space, DirPiece, name>>

\* awk '{gsub(".*", packageFilename, $2); print $0}'
Rewrite(l, name) ==
    LET out == SplitFields(AwkRewrite(TextOf(l), <<name>>))
    IN [digest |-> out[1][1], file |-> out[2][1]]

\* the rewrite of every line a manifest can hold, for the artifact names a run can
\* have set, computed once
Rewritten ==
    [l \in UNION {ManifestLines(p) : p \in Packages}, name \in {"", PackageFile} |->
        Rewrite(l, name)]

RECURSIVE ExtractLines(_, _, _, _)
\* the pipeline of getMD5Sum over the manifest, line by line
ExtractLines(manifest, arch, package, name) ==
    IF manifest = <<>> THEN <<>>
    ELSE LET rest == ExtractLines(Tail(manifest), arch, package, name)
         IN IF (IF package = "seamonkey" THEN SelectedMD5(Head(manifest), arch)
                ELSE Selected(Head(manifest), arch, package))
            THEN <<Rewritten[Head(manifest), name]>> \o rest
            ELSE rest

\* the digest of the local file called `name`, "absent" if there is none
FileDigest(d, pkgname, name) ==
    IF name = pkgname THEN d.pkg ELSE "absent"

\* sha512sum -c / md5sum -c: 0 iff there is a line and every line checks
ChecksumRCBlind(sha, d, pkgname) == 0
ChecksumRC(sha, d, pkgname) ==
    IF /\ sha.exists
       /\ Len(sha.lines) > 0
       /\ \A i \in 1..Len(sha.lines) :
            FileDigest(d, pkgname, sha.lines[i].file) = sha.lines[i].digest
    THEN 0 ELSE 1

----------------------------------------------------------------------------
(* MozillaInstaller.start: the order of the calls and the condition on each *)

\* a start() that publishes and uploads before it builds
MethodsPublishFirst ==
    <<"welcome", "getLatestVersion", "printVersion", "confirmLatestVersion",
      "createRepository", "syncRepository",
      "downloadPackage", "downloadGPGSignature", "getMozillaGPGKey", "getMD5Sum",
      "verifyMD5Sum", "createDebStructure", "extractArchive", "createSymlinks",
      "createMenuItem", "createDeb", "cleanup", "printSuccessMessage">>

Methods ==
    <<"welcome", "getLatestVersion", "printVersion", "confirmLatestVersion",
      "downloadPackage", "downloadGPGSignature", "getMozillaGPGKey", "getMD5Sum",
      "verifyMD5Sum", "createDebStructure", "extractArchive", "createSymlinks",
      "createMenuItem", "createDeb", "createRepository", "syncRepository",
      "cleanup", "printSuccessMessage">>

\* the list that lines 282, 289 and 312 spell with 'uploadrpo'
WelcomeActions == {"builddeb", "adddebtorepo", "uploadrpo", "cleanup", "all"}

\* every call of start() made unconditionally
StartGuardAll(m, o) == TRUE

StartGuard(m, o) ==
    CASE m \in {"welcome", "confirmLatestVersion", "printSuccessMessage"} ->
            o.action \in WelcomeActions
      [] m = "getLatestVersion" -> TRUE
      [] m = "printVersion" -> o.action \in {"getversion"}
      [] m \in {"downloadGPGSignature", "getMozillaGPGKey"} ->
            o.action \in {"builddeb", "all"} /\ ~o.skipgpg
      [] m \in {"downloadPackage", "getMD5Sum", "verifyMD5Sum", "createDebStructure",
                "extractArchive", "createSymlinks", "createMenuItem", "createDeb"} ->
            o.action \in {"builddeb", "all"}
      [] m = "createRepository" -> o.action \in {"adddebtorepo", "all"}
      [] m = "syncRepository" -> o.action \in {"uploadrepo", "all"}
      [] m = "cleanup" -> o.action \in {"cleanup", "all"}

IndexOf(m) == CHOOSE i \in 1..Len(Methods) : Methods[i] = m

\* the next call start() makes after position i, "return" when none is left
NextCallFrom(i, o) ==
    LET later == {j \in (i + 1)..Len(Methods) : StartGuard(Methods[j], o)}
    IN IF later = {} THEN "return"
       ELSE Methods[CHOOSE j \in later : \A k \in later : j <= k]

NextCall(m, o) == NextCallFrom(IndexOf(m), o)

----------------------------------------------------------------------------
(* Initial state: the process has parsed its options and nothing has run.  *)
(* A digest file left by an earlier run may already be in /tmp.            *)

StaleDigestFiles == {File(<<[digest |-> d, file |-> PackageFile]>>) : d \in Digests}

Init ==
    /\ options \in OptionSets
    /\ pc = "check_uid"
    /\ attrs = {}
    /\ releaseVersion = <<>>
    /\ confirmed = FALSE
    /\ packageFilename = ""
    /\ sigFilename = ""
    /\ fetch = IdleFetch
    /\ keyloop = IdleKeys
    /\ disk \in [pkg : {"absent"}, sums : {NoFile}, asc : {FALSE},
                 sha : {NoFile} \cup StaleDigestFiles,
                 debdir : {FALSE}, deb : {FALSE}]
    /\ expected = <<>>
    /\ rc = [gpg |-> -1, sum |-> -1]
    /\ calls = <<>>
    /\ commands = {}
    /\ stdout = <<>>
    /\ exitCode = -1
    /\ failure = "none"

----------------------------------------------------------------------------
(* Control transfer *)

\* sys.exit(code), or an exception nobody catches (status 1)
\* an exit that reports success whatever happened
ExitZero(code, why) ==
    /\ pc' = "exited"
    /\ exitCode' = 0
    /\ failure' = why

Exit(code, why) ==
    /\ pc' = "exited"
    /\ exitCode' = code
    /\ failure' = why

\* method m returns to start(), which makes its next call or returns (status 0)
Continue(m) ==
    LET n == NextCall(m, options)
    IN /\ pc' = (IF n = "return" THEN "exited" ELSE n)
       /\ exitCode' = (IF n = "return" THEN 0 ELSE exitCode)
       /\ failure' = failure

Enter(m) == calls' = Append(calls, m)

\* askyesno: input() is read only when the run is attended
\* an askyesno that reads the terminal in unattended runs too
AskNeedsInputAlways(o) == TRUE

AskNeedsInput(o) == ~o.unattended

\* an askyesno that accepts no keystroke
ValidAnswerNone(k) == FALSE

ValidAnswer(k) == k \in {"y", "Y", "n", "N"}

NewFetch(what, template) ==
    [what |-> what, template |-> template, idx |-> 1, tried |-> <<>>, result |-> "running"]

----------------------------------------------------------------------------
(* BaseStarter.start, check_uid *)

\* os.getuid() is 0 for root and something else for a regular user
Uids == {0, 1000}

CheckUid ==
    /\ pc = "check_uid"
    /\ \E uid \in Uids : pc' = (IF uid = 0 THEN "uid_prompt" ELSE "start")
    /\ UNCHANGED <<options, attrs, releaseVersion, confirmed, packageFilename,
                   sigFilename, fetch, keyloop, disk, expected, rc, calls, commands,
                   stdout, exitCode, failure>>

UidAnswer ==
    /\ pc = "uid_prompt"
    /\ \E k \in Keystrokes :
          IF ~ValidAnswer(k) THEN UNCHANGED <<pc, exitCode, failure>>
          ELSE IF Lower(k) = "y" THEN Exit(0, "quit")
          ELSE pc' = "start" /\ UNCHANGED <<exitCode, failure>>
    /\ UNCHANGED <<options, attrs, releaseVersion, confirmed, packageFilename,
                   sigFilename, fetch, keyloop, disk, expected, rc, calls, commands,
                   stdout>>

\* the installer is constructed and start() makes its first call
Begin ==
    /\ pc = "start"
    /\ pc' = NextCallFrom(0, options)
    /\ UNCHANGED <<options, attrs, releaseVersion, confirmed, packageFilename,
                   sigFilename, fetch, keyloop, disk, expected, rc, calls, commands,
                   stdout, exitCode, failure>>

----------------------------------------------------------------------------
(* Version resolution *)

Welcome ==
    /\ pc = "welcome"
    /\ Enter("welcome")
    /\ Continue("welcome")
    /\ UNCHANGED <<options, attrs, releaseVersion, confirmed, packageFilename,
                   sigFilename, fetch, keyloop, disk, expected, rc, commands, stdout>>

CommandFailed == <<"SystemCommandExecutionError">>

GetLatestVersion ==
    /\ pc = "getLatestVersion"
    /\ Enter("getLatestVersion")
    /\ \E out \in PageLines \cup {CommandFailed} :
          IF out = CommandFailed
          THEN Exit(1, "tool") /\ UNCHANGED <<releaseVersion, attrs>>
          ELSE LET v == ExtractVersion(options.package, out)
               IN IF v = NoMatch
                  THEN Exit(1, "crash") /\ UNCHANGED <<releaseVersion, attrs>>
                  ELSE /\ releaseVersion' = v
                       /\ attrs' = attrs \cup {"releaseVersion"}
                       /\ Continue("getLatestVersion")
    /\ UNCHANGED <<options, confirmed, packageFilename, sigFilename, fetch,
                   keyloop, disk, expected, rc, commands, stdout>>

\* start(): print(self.releaseVersion) for action getversion
PrintVersion ==
    /\ pc = "printVersion"
    /\ Enter("printVersion")
    /\ stdout' = releaseVersion
    /\ Continue("printVersion")
    /\ UNCHANGED <<options, attrs, releaseVersion, confirmed, packageFilename,
                   sigFilename, fetch, keyloop, disk, expected, rc, commands>>

ConfirmLatestVersion ==
    /\ pc = "confirmLatestVersion"
    /\ Enter("confirmLatestVersion")
    /\ IF AskNeedsInput(options)
       THEN /\ pc' = "confirm_prompt"
            /\ UNCHANGED <<confirmed, exitCode, failure>>
       ELSE /\ confirmed' = TRUE
            /\ Continue("confirmLatestVersion")
    /\ UNCHANGED <<options, attrs, releaseVersion, packageFilename, sigFilename,
                   fetch, keyloop, disk, expected, rc, commands, stdout>>

ConfirmAnswer ==
    /\ pc = "confirm_prompt"
    /\ \E k \in Keystrokes :
          IF ~ValidAnswer(k) THEN UNCHANGED <<pc, confirmed, exitCode, failure>>
          ELSE IF Lower(k) = "y"
          THEN confirmed' = TRUE /\ Continue("confirmLatestVersion")
          ELSE pc' = "enter_version" /\ UNCHANGED <<confirmed, exitCode, failure>>
    /\ UNCHANGED <<options, attrs, releaseVersion, packageFilename, sigFilename,
                   fetch, keyloop, disk, expected, rc, calls, commands, stdout>>

\* the while loop of confirmLatestVersion: input(), then 'q' or an override
EnterVersion ==
    /\ pc = "enter_version"
    /\ \E t \in TypedVersions \cup {Quit} :
          IF t = Quit
          THEN Exit(0, "quit") /\ UNCHANGED <<releaseVersion, confirmed>>
          ELSE /\ releaseVersion' = t
               /\ IF AskNeedsInput(options)
                  THEN /\ pc' = "override_prompt"
                       /\ confirmed' = FALSE
                       /\ UNCHANGED <<exitCode, failure>>
                  ELSE /\ confirmed' = TRUE
                       /\ Continue("confirmLatestVersion")
    /\ UNCHANGED <<options, attrs, packageFilename, sigFilename, fetch, keyloop,
                   disk, expected, rc, calls, commands, stdout>>

OverrideAnswer ==
    /\ pc = "override_prompt"
    /\ \E k \in Keystrokes :
          IF ~ValidAnswer(k) THEN UNCHANGED <<pc, confirmed, exitCode, failure>>
          ELSE IF Lower(k) = "y"
          THEN confirmed' = TRUE /\ Continue("confirmLatestVersion")
          ELSE pc' = "enter_version" /\ UNCHANGED <<confirmed, exitCode, failure>>
    /\ UNCHANGED <<options, attrs, releaseVersion, packageFilename, sigFilename,
                   fetch, keyloop, disk, expected, rc, calls, commands, stdout>>

----------------------------------------------------------------------------
(* Artifact: downloadPackage and UtilityFunctions.robustDownload *)

ProbeCommand(mirror) == <<"curl", mirror, "releases/version/linux-arch/en-US/ | w3m | grep | awk">>

\* one pass of a mirror loop: the command tried and what became of it
Attempt(mirror, cmd, ok) == [mirror |-> mirror, cmd |-> cmd, ok |-> ok]

DownloadPackage ==
    /\ pc = "downloadPackage"
    /\ Enter("downloadPackage")
    /\ IF options.package = "seamonkey"
       THEN \* the landing page is scraped for the download link
            \E out \in {"fail", "nolink", "link"} :
               CASE out = "fail" ->
                       /\ Exit(1, "tool")
                       /\ UNCHANGED <<packageFilename, attrs, fetch>>
                 [] out = "nolink" ->
                       /\ Exit(1, "crash")
                       /\ UNCHANGED <<packageFilename, attrs, fetch>>
                 [] out = "link" ->
                       /\ packageFilename' = PackageFile
                       /\ attrs' = attrs \cup {"packageFilename"}
                       /\ fetch' = NewFetch("artifact", ArtifactTemplate(options.package))
                       /\ pc' = "robustDownload"
                       /\ UNCHANGED <<exitCode, failure>>
       ELSE /\ fetch' = NewFetch("probe", <<>>)
            /\ pc' = "probe"
            /\ UNCHANGED <<packageFilename, attrs, exitCode, failure>>
    /\ UNCHANGED <<options, releaseVersion, confirmed, sigFilename, keyloop,
                   disk, expected, rc, commands, stdout>>

\* the for loop over self.options.mirrors that asks a mirror for the file name
ProbeAttempt ==
    /\ pc = "probe"
    /\ \E ok \in BOOLEAN :
          LET mirror == options.mirrors[fetch.idx]
              tried == Append(fetch.tried, Attempt(mirror, ProbeCommand(mirror), ok))
              next == NextMirror(fetch.idx, options.mirrors)
          IN IF ok
             THEN /\ packageFilename' = PackageFile
                  /\ attrs' = attrs \cup {"packageFilename"}
                  /\ fetch' = NewFetch("artifact", ArtifactTemplate(options.package))
                  /\ pc' = "robustDownload"
                  /\ UNCHANGED <<exitCode, failure>>
             ELSE /\ UNCHANGED <<packageFilename, attrs>>
                  /\ IF next = 0
                     THEN /\ fetch' = [fetch EXCEPT !.tried = tried, !.result = "failed"]
                          /\ Exit(1, "network")
                     ELSE /\ fetch' = [fetch EXCEPT !.tried = tried, !.idx = next]
                          /\ UNCHANGED <<pc, exitCode, failure>>
    /\ UNCHANGED <<options, releaseVersion, confirmed, sigFilename, keyloop,
                   disk, expected, rc, calls, commands, stdout>>

\* the line of the seamonkey manifest as the grep pipeline stores it, before sed
RawMD5Path == "md5 <size> linux-<arch>/en-US/<packageFilename>"
RawMD5(l) == [digest |-> l.digest, file |-> RawMD5Path]

\* sed -i 's#md5.*linux-<arch>/en-US/##'
SedStrip(l, name) ==
    IF l.file = RawMD5Path
    THEN LET out == SplitFields(SedText(TextOfMD5(l, name)))
         IN [digest |-> out[1][1], file |-> out[2][1]]
    ELSE l

MapRawMD5(ls) == [i \in 1..Len(ls) |-> RawMD5(ls[i])]
MapSedStrip(ls, name) == [i \in 1..Len(ls) |-> SedStrip(ls[i], name)]

\* what a successful attempt of each kind of download leaves behind
Downloaded(what, d) ==
    CASE what = "artifact" -> {[d EXCEPT !.pkg = x] : x \in Digests}
      [] what = "sums" -> {[d EXCEPT !.sums = File(mf)] : mf \in Manifests(options.package)}
      [] what = "asc" -> {[d EXCEPT !.asc = TRUE]}
      [] what = "md5" ->
            {[d EXCEPT !.sha = File(MapRawMD5(ExtractLines(mf, options.arch, options.package, "")))] :
                mf \in {m \in Manifests(options.package) :
                           ExtractLines(m, options.arch, options.package, "") # <<>>}}

\* a failed attempt: the shell redirection of the seamonkey pipeline has already
\* truncated the digest file
NotDownloaded(what, d) ==
    IF what = "md5" THEN [d EXCEPT !.sha = File(<<>>)] ELSE d

\* where control goes when robustDownload returns
AfterDownload(what) ==
    CASE what = "artifact" -> NextCall("downloadPackage", options)
      [] what = "sums" -> "download_asc"
      [] what = "asc" -> "verifyGPGSignature"
      [] what = "md5" -> "sed"

\* every caller passes 'includewithtest': True
IncludeWithTest(what) == TRUE

\* robustDownload: one pass of `for mirror in self.options.mirrors`
RobustDownloadAttempt ==
    /\ pc = "robustDownload"
    /\ fetch.result = "running"
    /\ \E ok \in BOOLEAN :
          LET mirror == options.mirrors[fetch.idx]
              runs == Executes(options.test, IncludeWithTest(fetch.what))
              tried == IF runs
                       THEN Append(fetch.tried,
                                   Attempt(mirror, ReSub(mirror, fetch.template), ok))
                       ELSE fetch.tried
              next == NextMirror(fetch.idx, options.mirrors)
          IN IF Breaks(ok, runs)
             THEN \* no exception: break
                  /\ fetch' = [fetch EXCEPT !.tried = tried, !.result = "ok"]
                  /\ disk' \in (IF runs THEN Downloaded(fetch.what, disk) ELSE {disk})
                  /\ LET n == AfterDownload(fetch.what)
                     IN /\ pc' = (IF n = "return" THEN "exited" ELSE n)
                        /\ exitCode' = (IF n = "return" THEN 0 ELSE exitCode)
                  /\ UNCHANGED failure
             ELSE \* SystemCommandExecutionError: sleep, next mirror, or the else branch
                  /\ disk' = NotDownloaded(fetch.what, disk)
                  /\ IF next = 0
                     THEN /\ fetch' = [fetch EXCEPT !.tried = tried, !.result = "failed"]
                          /\ Exit(1, "network")
                     ELSE /\ fetch' = [fetch EXCEPT !.tried = tried, !.idx = next]
                          /\ UNCHANGED <<pc, exitCode, failure>>
    /\ UNCHANGED <<options, attrs, releaseVersion, confirmed, packageFilename,
                   sigFilename, keyloop, expected, rc, calls, commands, stdout>>

----------------------------------------------------------------------------
(* Keys: downloadGPGSignature, getMozillaGPGKey *)

IsSeamonkey(o) == o.package = "seamonkey"

DownloadGPGSignature ==
    /\ pc = "downloadGPGSignature"
    /\ Enter("downloadGPGSignature")
    /\ fetch' = IdleFetch
    /\ Continue("downloadGPGSignature")
    /\ UNCHANGED <<options, attrs, releaseVersion, confirmed, packageFilename,
                   sigFilename, keyloop, disk, expected, rc, commands, stdout>>

\* range(0,5): the rounds over the whole keyserver list
ImportRounds == 5

\* gpg --list-keys for the three key ids; the import loop starts when one is missing
GetMozillaGPGKey ==
    /\ pc = "getMozillaGPGKey"
    /\ Enter("getMozillaGPGKey")
    /\ fetch' = IdleFetch
    /\ IF IsSeamonkey(options)
       THEN Continue("getMozillaGPGKey") /\ UNCHANGED <<keyloop, commands>>
       ELSE /\ commands' = commands \cup {"gpg --list-keys"}
            /\ \E present \in BOOLEAN :
                  IF present
                  THEN /\ Continue("getMozillaGPGKey")
                       /\ keyloop' = [IdleKeys EXCEPT !.listed = TRUE]
                  ELSE /\ pc' = "import"
                       /\ keyloop' = [IdleKeys EXCEPT !.listed = TRUE, !.round = 0, !.ks = 1]
                       /\ UNCHANGED <<exitCode, failure>>
    /\ UNCHANGED <<options, attrs, releaseVersion, confirmed, packageFilename,
                   sigFilename, disk, expected, rc, stdout>>

\* the import loops never stop on a successful import
StopsImportingNever(returncode) == FALSE

\* no exception from the gpg --recv command: keySuccess is set and both loops break
StopsImporting(returncode) == returncode = 0

\* one gpg --keyserver <keyserver> --recv of the nested loops
ImportAttempt ==
    /\ pc = "import"
    /\ \E returncode \in {0, 2} :
          LET tried == Append(keyloop.tried,
                              [keyserver |-> options.keyservers[keyloop.ks],
                               ok |-> ~Raises(returncode)])
              lastks == keyloop.ks = Len(options.keyservers)
              lastround == keyloop.round = ImportRounds - 1
          IN IF StopsImporting(returncode)
             THEN /\ keyloop' = [keyloop EXCEPT !.tried = tried, !.keySuccess = TRUE]
                  /\ Continue("getMozillaGPGKey")
             ELSE IF ~lastks
             THEN /\ keyloop' = [keyloop EXCEPT !.tried = tried, !.ks = keyloop.ks + 1]
                  /\ UNCHANGED <<pc, exitCode, failure>>
             ELSE IF ~lastround
             THEN /\ keyloop' = [keyloop EXCEPT !.tried = tried, !.ks = 1,
                                                !.round = keyloop.round + 1]
                  /\ UNCHANGED <<pc, exitCode, failure>>
             ELSE /\ keyloop' = [keyloop EXCEPT !.tried = tried]
                  /\ Exit(1, "key")
    /\ commands' = commands \cup {"gpg --recv"}
    /\ UNCHANGED <<options, attrs, releaseVersion, confirmed, packageFilename,
                   sigFilename, fetch, disk, expected, rc, calls, stdout>>

----------------------------------------------------------------------------
(* Verification: getMD5Sum, verifyGPGSignature, verifyMD5Sum *)

GetMD5Sum ==
    /\ pc = "getMD5Sum"
    /\ Enter("getMD5Sum")
    /\ sigFilename' = (IF IsSeamonkey(options) THEN "MD5SUMS.txt" ELSE "package.tar.bz2.sha512")
    /\ attrs' = attrs \cup {"sigFilename"}
    /\ fetch' = (IF IsSeamonkey(options) THEN NewFetch("md5", Md5Template)
                 ELSE NewFetch("sums", SumsTemplate))
    /\ keyloop' = [IdleKeys EXCEPT !.keySuccess = keyloop.keySuccess]
    /\ pc' = "robustDownload"
    /\ UNCHANGED <<options, releaseVersion, confirmed, packageFilename, disk,
                   expected, rc, commands, stdout, exitCode, failure>>

\* getMD5Sum: the second robustDownload, of SHA512SUMS.asc
DownloadAsc ==
    /\ pc = "download_asc"
    /\ fetch' = NewFetch("asc", AscTemplate)
    /\ pc' = "robustDownload"
    /\ UNCHANGED <<options, attrs, releaseVersion, confirmed, packageFilename,
                   sigFilename, keyloop, disk, expected, rc, calls, commands, stdout,
                   exitCode, failure>>

\* SeamonkeyInstaller.getMD5Sum: the sed that strips the recorded path
SedDigestFile ==
    /\ pc = "sed"
    /\ fetch' = IdleFetch
    /\ \E ok \in BOOLEAN :
          IF ok
          THEN /\ disk' = [disk EXCEPT !.sha = File(MapSedStrip(disk.sha.lines, packageFilename))]
               /\ expected' = MapSedStrip(disk.sha.lines, packageFilename)
               /\ Continue("getMD5Sum")
          ELSE /\ Exit(1, "tool")
               /\ UNCHANGED <<disk, expected>>
    /\ UNCHANGED <<options, attrs, releaseVersion, confirmed, packageFilename,
                   sigFilename, keyloop, rc, calls, commands, stdout>>

\* os.remove of the files a failed check names
RemoveSignatureFiles(d) == [d EXCEPT !.pkg = "absent", !.sums = NoFile, !.asc = FALSE]
\* a deletion that leaves the artifact behind
RemoveChecksumFilesKeepingArtifact(d) == [d EXCEPT !.sha = NoFile]

RemoveChecksumFiles(d) == [d EXCEPT !.pkg = "absent", !.sha = NoFile]

\* gpg --verify SHA512SUMS.asc SHA512SUMS
VerifyGPGSignature ==
    /\ pc = "verifyGPGSignature"
    /\ Enter("verifyGPGSignature")
    /\ fetch' = IdleFetch
    /\ commands' = commands \cup {"gpg --verify"}
    /\ \E returncode \in {0, 1} :
          /\ rc' = [rc EXCEPT !.gpg = returncode]
          /\ IF Failed(returncode)
             THEN IF AskNeedsInput(options)
                  THEN /\ pc' = "gpg_prompt"
                       /\ UNCHANGED <<disk, exitCode, failure>>
                  ELSE /\ disk' = RemoveSignatureFiles(disk)
                       /\ Exit(1, "signature")
             ELSE /\ pc' = "extract"
                  /\ UNCHANGED <<disk, exitCode, failure>>
    /\ UNCHANGED <<options, attrs, releaseVersion, confirmed, packageFilename,
                   sigFilename, keyloop, expected, stdout>>

\* the operator types k at the deletion offer of verifyGPGSignature
GpgAnswerWith(k) ==
    /\ pc = "gpg_prompt"
    /\ IF ~ValidAnswer(k) THEN UNCHANGED <<pc, disk, exitCode, failure>>
       ELSE /\ disk' = (IF Lower(k) = "y" THEN RemoveSignatureFiles(disk) ELSE disk)
            /\ Exit(1, "signature")
    /\ UNCHANGED <<options, attrs, releaseVersion, confirmed, packageFilename,
                   sigFilename, fetch, keyloop, expected, rc, calls, commands, stdout>>

GpgAnswer == \E k \in Keystrokes : GpgAnswerWith(k)

\* getMD5Sum after the signature check: an existing digest file is kept, else the
\* manifest is filtered into one; the manifest and its signature are removed
ExtractDigest ==
    /\ pc = "extract"
    /\ LET lines == ExtractLines(disk.sums.lines, options.arch, options.package,
                                 packageFilename)
       IN /\ disk' = [disk EXCEPT
                        !.sha = IF disk.sha.exists THEN disk.sha ELSE File(lines),
                        !.sums = NoFile, !.asc = FALSE]
          /\ expected' = lines
    /\ Continue("getMD5Sum")
    /\ UNCHANGED <<options, attrs, releaseVersion, confirmed, packageFilename,
                   sigFilename, fetch, keyloop, rc, calls, commands, stdout>>

\* the digest tool verifyMD5Sum runs, with the mistaken choice first
ChecksumToolSame(package) == "sha512sum -c"
ChecksumTool(package) == IF package = "seamonkey" THEN "md5sum -c" ELSE "sha512sum -c"

\* sha512sum -c <sigFilename> (md5sum -c for seamonkey)
VerifyMD5Sum ==
    /\ pc = "verifyMD5Sum"
    /\ Enter("verifyMD5Sum")
    /\ fetch' = IdleFetch
    /\ commands' = commands \cup {ChecksumTool(options.package)}
    /\ LET returncode == ChecksumRC(disk.sha, disk, packageFilename)
       IN /\ rc' = [rc EXCEPT !.sum = returncode]
          /\ IF Failed(returncode)
             THEN IF AskNeedsInput(options)
                  THEN /\ pc' = "sum_prompt"
                       /\ UNCHANGED <<disk, exitCode, failure>>
                  ELSE /\ disk' = RemoveChecksumFiles(disk)
                       /\ Exit(1, "checksum")
             ELSE /\ Continue("verifyMD5Sum")
                  /\ UNCHANGED disk
    /\ UNCHANGED <<options, attrs, releaseVersion, confirmed, packageFilename,
                   sigFilename, keyloop, expected, stdout>>

\* the operator types k at the deletion offer of verifyMD5Sum
SumAnswerWith(k) ==
    /\ pc = "sum_prompt"
    /\ IF ~ValidAnswer(k) THEN UNCHANGED <<pc, disk, exitCode, failure>>
       ELSE /\ disk' = (IF Lower(k) = "y" THEN RemoveChecksumFiles(disk) ELSE disk)
            /\ Exit(1, "checksum")
    /\ UNCHANGED <<options, attrs, releaseVersion, confirmed, packageFilename,
                   sigFilename, fetch, keyloop, expected, rc, calls, commands, stdout>>

SumAnswer == \E k \in Keystrokes : SumAnswerWith(k)

----------------------------------------------------------------------------
(* Staging and package build: the collaborators start() hands over to *)

\* a staging method: its commands run unless the run is a dry run; a command that
\* exits non-zero raises, and so does a chdir or open that fails
Stage(m, cmd, built) ==
    /\ pc = m
    /\ Enter(m)
    /\ LET runs == Executes(options.test, FALSE)
       IN \E out \in {"ok", "toolfail", "oserror"} :
             LET returncode == IF out = "toolfail" THEN 1 ELSE 0
             IN /\ out = "toolfail" => runs
                /\ commands' = (IF runs THEN commands \cup {cmd} ELSE commands)
                /\ IF out = "oserror"
                   THEN Exit(1, "crash") /\ UNCHANGED disk
                   ELSE IF Raises(returncode)
                   THEN Exit(1, "tool") /\ UNCHANGED disk
                   ELSE /\ disk' = (IF runs /\ out = "ok" THEN built ELSE disk)
                        /\ Continue(m)
    /\ UNCHANGED <<options, attrs, releaseVersion, confirmed, packageFilename,
                   sigFilename, fetch, keyloop, expected, rc, stdout>>

CreateDebStructure ==
    Stage("createDebStructure", "mkdir", [disk EXCEPT !.debdir = TRUE])

ExtractArchive == Stage("extractArchive", "tar", disk)

CreateSymlinks == Stage("createSymlinks", "ln", disk)

CreateMenuItem == Stage("createMenuItem", "chown", disk)

CreateDeb == Stage("createDeb", "dpkg-deb", [disk EXCEPT !.deb = TRUE])

----------------------------------------------------------------------------
(* Publishing and cleanup *)

\* the command a confirmed prompt leads to, through execSystemCommand
RunPublisher(m, cmd) ==
    LET runs == Executes(options.test, FALSE)
    IN \E returncode \in {0, 1} :
          /\ commands' = (IF runs THEN commands \cup {cmd} ELSE commands)
          /\ IF runs /\ Raises(returncode) THEN Exit(1, "tool") ELSE Continue(m)

Publish(m, cmd, prompt) ==
    /\ pc = m
    /\ Enter(m)
    /\ IF AskNeedsInput(options)
       THEN /\ pc' = prompt
            /\ UNCHANGED <<commands, exitCode, failure>>
       ELSE RunPublisher(m, cmd)
    /\ UNCHANGED <<options, attrs, releaseVersion, confirmed, packageFilename,
                   sigFilename, fetch, keyloop, disk, expected, rc, stdout>>

PublishAnswer(m, cmd, prompt) ==
    /\ pc = prompt
    /\ \E k \in Keystrokes :
          IF ~ValidAnswer(k) THEN UNCHANGED <<pc, commands, exitCode, failure>>
          ELSE IF Lower(k) = "y" THEN RunPublisher(m, cmd)
          ELSE Continue(m) /\ UNCHANGED commands
    /\ UNCHANGED <<options, attrs, releaseVersion, confirmed, packageFilename,
                   sigFilename, fetch, keyloop, disk, expected, rc, calls, stdout>>

CreateRepository == Publish("createRepository", "reprepro", "repo_prompt")
RepositoryAnswer == PublishAnswer("createRepository", "reprepro", "repo_prompt")

SyncRepository == Publish("syncRepository", "rsync", "sync_prompt")
SyncAnswer == PublishAnswer("syncRepository", "rsync", "sync_prompt")

\* cleanup when the answer to KEEP is 'n': rm -rf through execSystemCommand,
\* then os.remove of the artifact and of the digest file
RemoveWorkFiles ==
    LET runs == Executes(options.test, FALSE)
        d1 == IF runs THEN [disk EXCEPT !.debdir = FALSE] ELSE disk
        d2 == [d1 EXCEPT !.pkg = "absent"]
        d3 == [d2 EXCEPT !.sha = NoFile]
    IN \E returncode \in {0, 1} :
          /\ commands' = (IF runs THEN commands \cup {"rm -rf"} ELSE commands)
          /\ IF runs /\ Raises(returncode)
             THEN disk' = disk /\ Exit(1, "tool")
             ELSE IF "packageFilename" \notin attrs \/ d1.pkg = "absent"
             THEN disk' = d1 /\ Exit(1, "crash")
             ELSE IF "sigFilename" \notin attrs \/ ~d2.sha.exists
             THEN disk' = d2 /\ Exit(1, "crash")
             ELSE disk' = d3 /\ Continue("cleanup")

Cleanup ==
    /\ pc = "cleanup"
    /\ Enter("cleanup")
    /\ IF AskNeedsInput(options)
       THEN /\ pc' = "cleanup_prompt"
            /\ UNCHANGED <<exitCode, failure>>
       ELSE Continue("cleanup")
    /\ UNCHANGED <<options, attrs, releaseVersion, confirmed, packageFilename,
                   sigFilename, fetch, keyloop, disk, expected, rc, commands, stdout>>

CleanupAnswer ==
    /\ pc = "cleanup_prompt"
    /\ \E k \in Keystrokes :
          IF ~ValidAnswer(k) THEN UNCHANGED <<pc, disk, commands, exitCode, failure>>
          ELSE IF Lower(k) = "n" THEN RemoveWorkFiles
          ELSE Continue("cleanup") /\ UNCHANGED <<disk, commands>>
    /\ UNCHANGED <<options, attrs, releaseVersion, confirmed, packageFilename,
                   sigFilename, fetch, keyloop, expected, rc, calls, stdout>>

PrintSuccessMessage ==
    /\ pc = "printSuccessMessage"
    /\ Enter("printSuccessMessage")
    /\ Continue("printSuccessMessage")
    /\ UNCHANGED <<options, attrs, releaseVersion, confirmed, packageFilename,
                   sigFilename, fetch, keyloop, disk, expected, rc, commands, stdout>>

----------------------------------------------------------------------------

Next ==
    \/ CheckUid
    \/ UidAnswer
    \/ Begin
    \/ Welcome
    \/ GetLatestVersion
    \/ PrintVersion
    \/ ConfirmLatestVersion
    \/ ConfirmAnswer
    \/ EnterVersion
    \/ OverrideAnswer
    \/ DownloadPackage
    \/ ProbeAttempt
    \/ RobustDownloadAttempt
    \/ DownloadGPGSignature
    \/ GetMozillaGPGKey
    \/ ImportAttempt
    \/ GetMD5Sum
    \/ DownloadAsc
    \/ SedDigestFile
    \/ VerifyGPGSignature
    \/ GpgAnswer
    \/ ExtractDigest
    \/ VerifyMD5Sum
    \/ SumAnswer
    \/ CreateDebStructure
    \/ ExtractArchive
    \/ CreateSymlinks
    \/ CreateMenuItem
    \/ CreateDeb
    \/ CreateRepository
    \/ RepositoryAnswer
    \/ SyncRepository
    \/ SyncAnswer
    \/ Cleanup
    \/ CleanupAnswer
    \/ PrintSuccessMessage

Spec == Init /\ [][Next]_vars

----------------------------------------------------------------------------
(* Vocabulary of the properties *)

Called(m) == \E i \in 1..Len(calls) : calls[i] = m

LastCall == IF calls = <<>> THEN "none" ELSE calls[Len(calls)]

\* the methods behind "fetch+verify+stage+build package" of the stage table
BuildMethods ==
    {"downloadPackage", "downloadGPGSignature", "getMozillaGPGKey", "getMD5Sum",
     "verifyGPGSignature", "verifyMD5Sum", "createDebStructure", "extractArchive",
     "createSymlinks", "createMenuItem", "createDeb"}

\* every stage that comes after version resolution and confirmation
DownstreamMethods == BuildMethods \cup {"createRepository", "syncRepository", "cleanup"}

StagingMethods ==
    {"createDebStructure", "extractArchive", "createSymlinks", "createMenuItem", "createDeb"}

\* the row of the stage table a method belongs to ("none" for the messages)
StageOf(m) ==
    CASE m = "getLatestVersion" -> "resolve version"
      [] m = "confirmLatestVersion" -> "confirm version"
      [] m \in BuildMethods -> "fetch+verify+stage+build package"
      [] m = "createRepository" -> "publish to repo"
      [] m = "syncRepository" -> "upload repo"
      [] m = "cleanup" -> "cleanup temp files"
      [] OTHER -> "none"

StagesExecuted == {StageOf(calls[i]) : i \in 1..Len(calls)} \ {"none"}

\* the stage-gating table of the design, one column per action
StageTable(action) ==
    CASE action = "getversion" -> {"resolve version"}
      [] action = "builddeb" ->
            {"resolve version", "confirm version", "fetch+verify+stage+build package"}
      [] action = "adddebtorepo" ->
            {"resolve version", "confirm version", "publish to repo"}
      [] action = "uploadrepo" ->
            {"resolve version", "confirm version", "upload repo"}
      [] action = "cleanup" ->
            {"resolve version", "confirm version", "cleanup temp files"}
      [] action = "all" ->
            {"resolve version", "confirm version", "fetch+verify+stage+build package",
             "publish to repo", "upload repo", "cleanup temp files"}

\* the run ended by start() returning
Completed == pc = "exited" /\ exitCode = 0 /\ failure = "none"

\* states in which the process is blocked in input()
PromptStates ==
    {"uid_prompt", "confirm_prompt", "enter_version", "override_prompt", "gpg_prompt",
     "sum_prompt", "repo_prompt", "sync_prompt", "cleanup_prompt"}

\* the manifest downloaded in this run records exactly the artifact's digest
ManifestMatches(d) ==
    /\ Len(expected) > 0
    /\ \A i \in 1..Len(expected) : expected[i].digest = d.pkg

\* the digest file on disk agrees with the artifact on disk
DigestFileMatches(d) ==
    /\ d.sha.exists
    /\ Len(d.sha.lines) > 0
    /\ \A i \in 1..Len(d.sha.lines) : d.sha.lines[i].digest = d.pkg

SignatureRequired(o) == ~IsSeamonkey(o)

RobustKinds == {"artifact", "sums", "asc", "md5"}

----------------------------------------------------------------------------
(* Properties *)

\* C1: the step that compares the checksum hands over to staging if and only if
\* the signature check passed (where the variant requires one) and the digest of
\* the local artifact is the digest the manifest of this run records for it.
C1_VerifiedIffManifestDigest ==
    [][pc = "verifyMD5Sum" =>
         ((pc' = "createDebStructure") <=>
             ((SignatureRequired(options) => rc.gpg = 0) /\ ManifestMatches(disk)))]_vars

\* C2: a run that completes has executed exactly the stages ticked in the column
\* of its action in the stage table.
C2_StagesMatchTable == Completed => StagesExecuted = StageTable(options.action)

\* C3: while a robustDownload is running every attempt so far failed and was made
\* against the mirrors in list order; when it has returned success the attempts
\* are the first k+1 mirrors in order, the last one the only success, and none
\* follows it.
C3_FirstSuccessWins ==
    (fetch.what \in RobustKinds /\ fetch.result \in {"running", "ok"}) =>
        LET n == Len(fetch.tried)
        IN /\ n <= Len(options.mirrors)
           /\ \A i \in 1..n :
                 /\ fetch.tried[i].mirror = options.mirrors[i]
                 /\ fetch.tried[i].ok <=> (fetch.result = "ok" /\ i = n)
           /\ fetch.result = "ok" => n >= 1
           /\ fetch.result = "running" => fetch.idx = n + 1

C3_Witness ==
    /\ fetch.what = "sums"
    /\ fetch.result = "ok"
    /\ Len(fetch.tried) = Len(options.mirrors)
    /\ Len(fetch.tried) >= 3

\* C4: a robustDownload has failed exactly when all |M| mirrors were tried once,
\* in list order, and all failed; the run is then over with exit code 1 and no
\* method was entered after the one that asked for the download.
C4_ExhaustionExits ==
    /\ (fetch.what \in RobustKinds /\ fetch.result = "failed") =>
          /\ Len(fetch.tried) = Len(options.mirrors)
          /\ \A i \in 1..Len(fetch.tried) :
                fetch.tried[i].mirror = options.mirrors[i] /\ ~fetch.tried[i].ok
          /\ pc = "exited"
          /\ exitCode = 1
          /\ failure = "network"
          /\ LastCall = (IF fetch.what = "artifact" THEN "downloadPackage" ELSE "getMD5Sum")
    /\ (fetch.what \in RobustKinds /\ fetch.result = "running") =>
          Len(fetch.tried) < Len(options.mirrors)

C4_Witness ==
    /\ fetch.what = "asc"
    /\ fetch.result = "failed"
    /\ Len(fetch.tried) = 3
    /\ pc = "exited"

\* C5: no stage after version resolution has been entered while the version is
\* unconfirmed, and the override loop is left only with a confirmed version.
C5_NoStageUnconfirmed ==
    (\E i \in 1..Len(calls) : calls[i] \in DownstreamMethods) => confirmed

\* C6: the version every stage after confirmation works with is non-empty and has
\* the shape of the variant's version strings.
C6_VersionWellFormed ==
    (\E i \in 1..Len(calls) : calls[i] \in DownstreamMethods) =>
        (releaseVersion # <<>> /\ ShapeOK(options.package, releaseVersion))

\* C7 (as claimed): reprepro is invoked only for a package that passed
\* verification and was built in the same run, for AddToRepo as well as All.
C7_PublishOnlyVerifiedBuilt ==
    "reprepro" \in commands =>
        /\ rc.sum = 0
        /\ SignatureRequired(options) => rc.gpg = 0
        /\ disk.deb

\* C7 (amended): under action All reprepro is invoked only after, in the same run,
\* the checksum comparison returned 0, the signature check returned 0 where the
\* variant has one, and dpkg-deb built the package.
C7_PublishAfterBuildUnderAll ==
    (options.action = "all" /\ "reprepro" \in commands) =>
        /\ rc.sum = 0
        /\ SignatureRequired(options) => rc.gpg = 0
        /\ disk.deb
        /\ "dpkg-deb" \in commands

C7_Witness ==
    /\ options.action = "all"
    /\ "reprepro" \in commands
    /\ options.package = "firefox"

\* C8: whenever control is in, or has passed, a staging or build method, the
\* checksum comparison of this run returned 0 and, for the variants with a
\* signature, gpg --verify returned 0; while staging is in progress the digest
\* file on disk agrees with the artifact on disk.
C8_StagingOnlyAfterVerification ==
    /\ (\E i \in 1..Len(calls) : calls[i] \in StagingMethods) =>
          /\ rc.sum = 0
          /\ SignatureRequired(options) => rc.gpg = 0
    /\ pc \in StagingMethods =>
          /\ rc.sum = 0
          /\ SignatureRequired(options) => rc.gpg = 0
          /\ DigestFileMatches(disk)

C8_Witness ==
    /\ Called("createDeb")
    /\ Called("extractArchive")
    /\ options.package = "thunderbird"
    /\ options.skipgpg

\* C9: in unattended mode the process is never blocked waiting for the operator.
C9_UnattendedNeverPrompts == options.unattended => pc \notin PromptStates

\* C10: once the signature check or the checksum comparison has failed, the
\* process is at the deletion offer or has exited with a non-zero code; nothing
\* is downloaded again and no method is entered after the failed check.
C10_VerificationFailureTerminal ==
    (rc.gpg > 0 \/ rc.sum > 0) =>
        /\ pc \in {"gpg_prompt", "sum_prompt", "exited"}
        /\ pc = "exited" => (exitCode # 0 /\ failure \in {"signature", "checksum"})
        /\ LastCall = (IF rc.gpg > 0 THEN "verifyGPGSignature" ELSE "verifyMD5Sum")
        /\ fetch = IdleFetch
        /\ ~(\E i \in 1..Len(calls) : calls[i] \in StagingMethods
                \cup {"createRepository", "syncRepository", "cleanup"})

C10_Witness ==
    /\ rc.sum > 0
    /\ pc = "exited"
    /\ disk.pkg # "absent"
    /\ ~options.unattended

\* C11: getMozillaGPGKey contacts no keyserver when gpg lists all the keys;
\* otherwise the imports go through the keyserver list in order, round after
\* round, at most 5 rounds; every import before the last one made has failed and
\* the last one succeeded exactly when keySuccess is set, after which the loop is
\* left; the run ends on the key failure only with all 5*|K| imports failed, with
\* exit code 1 and gpg --verify never run.
C11_KeyImportOrderAndBound ==
    LET K == Len(options.keyservers)
        n == Len(keyloop.tried)
    IN /\ n <= ImportRounds * K
       /\ \A i \in 1..n :
             /\ keyloop.tried[i].keyserver = options.keyservers[((i - 1) % K) + 1]
             /\ keyloop.tried[i].ok <=> (keyloop.keySuccess /\ i = n)
       /\ keyloop.keySuccess => pc # "import"
       /\ pc = "import" =>
             /\ n < ImportRounds * K
             /\ keyloop.ks = (n % K) + 1
             /\ keyloop.round = n \div K
             /\ rc.gpg = -1
       /\ (pc = "getMD5Sum" /\ keyloop.listed /\ ~keyloop.keySuccess) => n = 0
       /\ failure = "key" =>
             /\ n = ImportRounds * K
             /\ exitCode = 1
             /\ rc.gpg = -1
             /\ ~Called("verifyGPGSignature")
             /\ LastCall = "getMozillaGPGKey"

\* all 25 imports failed and the run ended
C11_Witness ==
    /\ failure = "key"
    /\ pc = "exited"
    /\ Len(keyloop.tried) = ImportRounds * Len(options.keyservers)

\* an import succeeded in the third round, at the second keyserver
C11_WitnessLateSuccess ==
    /\ keyloop.keySuccess
    /\ Len(keyloop.tried) = 2 * Len(options.keyservers) + 2
    /\ pc = "getMD5Sum"

\* C12: with --skipgpg no key is listed or imported and gpg --verify is never
\* run, whatever the package.
C12_SkipGpgSkipsSignature ==
    options.skipgpg =>
        /\ ~Called("getMozillaGPGKey")
        /\ ~Called("verifyGPGSignature")
        /\ rc.gpg = -1

\* position of the first call of method m in calls, 0 if it was never called
FirstCall(m) ==
    IF Called(m) THEN CHOOSE i \in 1..Len(calls) :
                         calls[i] = m /\ \A j \in 1..(i - 1) : calls[j] # m
    ELSE 0

GpgCommands == {"gpg --list-keys", "gpg --recv", "gpg --verify"}

\* the part of the policy that does not depend on --skipgpg: seamonkey runs no gpg
\* command and compares with md5sum; the other packages compare with sha512sum,
\* and only after gpg --verify returned 0, the digest being extracted in between
SuiteAndSignaturePolicy ==
    /\ IsSeamonkey(options) =>
          /\ commands \cap GpgCommands = {}
          /\ rc.gpg = -1
          /\ keyloop.tried = <<>>
          /\ "sha512sum -c" \notin commands
          /\ Called("verifyMD5Sum") => "md5sum -c" \in commands
    /\ ~IsSeamonkey(options) =>
          /\ "md5sum -c" \notin commands
          /\ pc = "extract" => rc.gpg = 0
          /\ Called("verifyMD5Sum") =>
                /\ "sha512sum -c" \in commands
                /\ "gpg --verify" \in commands
                /\ rc.gpg = 0
                /\ 0 < FirstCall("verifyGPGSignature")
                /\ FirstCall("verifyGPGSignature") < FirstCall("verifyMD5Sum")

C13_WitnessSuite ==
    /\ IsSeamonkey(options)
    /\ "md5sum -c" \in commands
    /\ Called("createDebStructure")

\* C14: with action getversion the only installer steps are getLatestVersion and
\* the print of the version; no prompt of the version dialog, no probe, download,
\* check, staging, publishing or cleanup step is taken and nothing is run or
\* written; a run that resolved the version has printed it and exited with 0.
C14_GetVersionOnly ==
    options.action = "getversion" =>
        /\ pc \in {"check_uid", "uid_prompt", "start", "getLatestVersion",
                   "printVersion", "exited"}
        /\ \A i \in 1..Len(calls) : calls[i] = <<"getLatestVersion", "printVersion">>[i]
        /\ Len(calls) <= 2
        /\ fetch = IdleFetch /\ keyloop = IdleKeys
        /\ commands = {}
        /\ rc = [gpg |-> -1, sum |-> -1]
        /\ ~confirmed
        /\ disk.pkg = "absent" /\ disk.sums = NoFile /\ ~disk.asc
        /\ ~disk.debdir /\ ~disk.deb
        /\ Called("printVersion") =>
              /\ pc = "exited" /\ exitCode = 0 /\ failure = "none"
              /\ stdout = releaseVersion /\ stdout # <<>>
        /\ Completed => Called("printVersion")
        /\ (pc = "exited" /\ "releaseVersion" \in attrs) => Completed
        /\ ~Called("printVersion") => stdout = <<>>

C14_Witness ==
    /\ options.action = "getversion"
    /\ options.package = "firefox-esr"
    /\ pc = "exited" /\ exitCode = 0
    /\ stdout = <<"1", ".", "1", "esr">>
    /\ calls = <<"getLatestVersion", "printVersion">>

\* the methods of start() that run commands through execSystemCommand in the gated
\* stages
RunnerMethods == StagingMethods \cup {"createRepository", "syncRepository", "cleanup"}

\* C15: when a command run through execSystemCommand (or getSystemOutput) has
\* exited non-zero outside a retry loop, the run has ended with exit code 1 in the
\* very method that ran it: no method of start() that comes later was entered, the
\* success message included, and nothing runs afterwards.
C15_ToolFailureTerminal ==
    failure = "tool" =>
        /\ pc = "exited"
        /\ exitCode = 1
        /\ LastCall \in RunnerMethods \cup {"getLatestVersion", "downloadPackage", "getMD5Sum"}
        /\ \A i \in 1..Len(Methods) :
              i > IndexOf(LastCall) => ~Called(Methods[i])
        /\ LastCall \in RunnerMethods => ~options.test

\* dpkg-deb exited non-zero under action all
C15_Witness ==
    /\ failure = "tool"
    /\ options.action = "all"
    /\ LastCall = "createDeb"
    /\ "dpkg-deb" \in commands
    /\ ~disk.deb
    /\ exitCode = 1

\* the command each staging method is represented by
StageCommand(m) ==
    CASE m = "createDebStructure" -> "mkdir"
      [] m = "extractArchive" -> "tar"
      [] m = "createSymlinks" -> "ln"
      [] m = "createMenuItem" -> "chown"
      [] m = "createDeb" -> "dpkg-deb"

\* commands passed to execSystemCommand without includewithtest
GatedCommands == {"mkdir", "tar", "ln", "chown", "dpkg-deb", "reprepro", "rsync", "rm -rf"}

\* C16: a command given to execSystemCommand is executed exactly when the run is
\* not a dry run or the call sets includewithtest: a staging method that was
\* entered has run its command iff test is off; in a dry run no command without
\* includewithtest has run or left anything behind, and none has been reported as
\* failed; the calls with includewithtest (key listing, downloads) run all the same.
C16_DryRunGating ==
    /\ \A m \in StagingMethods :
          Called(m) => (StageCommand(m) \in commands <=> ~options.test)
    /\ options.test =>
          /\ commands \cap GatedCommands = {}
          /\ ~disk.debdir /\ ~disk.deb
          /\ LastCall \in RunnerMethods => failure # "tool"
    /\ (Called("getMozillaGPGKey") /\ ~IsSeamonkey(options)) => "gpg --list-keys" \in commands
    /\ (fetch.what \in RobustKinds /\ fetch.result = "ok") => Len(fetch.tried) >= 1
    /\ pc = "getMD5Sum" => disk.pkg # "absent"

\* a dry run of action all that went through every stage: the artifact was
\* downloaded, nothing was staged, built or published, and the run reports success
C16_Witness ==
    /\ options.test
    /\ options.action = "all"
    /\ Completed
    /\ Called("createDeb") /\ Called("createRepository") /\ Called("syncRepository")
    /\ disk.pkg # "absent"
    /\ commands \cap GatedCommands = {}

\* the prompts of confirmLatestVersion
DialogPrompts == {"confirm_prompt", "enter_version", "override_prompt"}

\* the operator's input at a prompt of the dialog ends the run by request
QuitStep == (ConfirmAnswer \/ EnterVersion \/ OverrideAnswer) /\ failure' = "quit"

\* the operator's answer at a y/n prompt of the dialog leads to the version prompt
\* with nothing else changed
DeclineStep ==
    /\ ConfirmAnswer \/ OverrideAnswer
    /\ pc' = "enter_version"
    /\ UNCHANGED <<disk, commands, calls, fetch, rc>>

\* once the operator has quit from the dialog the run is over and nothing was
\* downloaded, checked, staged, built, published, uploaded or cleaned up
QuitLeavesNothing ==
    (failure = "quit" /\ Called("confirmLatestVersion")) =>
        /\ pc = "exited"
        /\ LastCall = "confirmLatestVersion"
        /\ \A i \in 1..Len(calls) : calls[i] \notin DownstreamMethods
        /\ commands = {}
        /\ fetch = IdleFetch
        /\ rc = [gpg |-> -1, sum |-> -1]
        /\ disk.pkg = "absent" /\ disk.sums = NoFile /\ ~disk.asc
        /\ ~disk.debdir /\ ~disk.deb

\* C17 (as claimed): at every prompt of the version dialog an input of the
\* operator aborts the run, and an abort leaves nothing done.
C17_AbortAtEveryPrompt ==
    /\ pc \in DialogPrompts => ENABLED QuitStep
    /\ QuitLeavesNothing

\* C17 (amended): the abort ('q') is offered at the version prompt only; at the
\* two y/n prompts of the dialog the answer 'n' leads to the version prompt
\* without any side effect; an abort leaves nothing done.
C17_AbortAtVersionPrompt ==
    /\ pc = "enter_version" => ENABLED QuitStep
    /\ pc \in {"confirm_prompt", "override_prompt"} =>
          (ENABLED DeclineStep /\ ~ENABLED QuitStep)
    /\ QuitLeavesNothing

\* the operator rejected the discovered version, typed an override, rejected it
\* too and then quit
C17_Witness ==
    /\ failure = "quit"
    /\ pc = "exited"
    /\ LastCall = "confirmLatestVersion"
    /\ releaseVersion = <<>>

\* C18: at a deletion offer the answer y removes exactly the files the failed check
\* names (signature: artifact, SHA512SUMS, SHA512SUMS.asc; checksum: artifact and
\* digest file) and the answer n removes nothing; unattended runs take the offer
\* as accepted; reaching the offer changes nothing on disk; the run then exits 1.
C18_DeletionOfferEffects ==
    [][LET sigDel == [disk EXCEPT !.pkg = "absent", !.sums = NoFile, !.asc = FALSE]
           sumDel == [disk EXCEPT !.pkg = "absent", !.sha = NoFile]
       IN /\ \A k \in Keystrokes :
                /\ (GpgAnswerWith(k) /\ pc' = "exited") =>
                      /\ disk' = (IF k \in {"y", "Y"} THEN sigDel ELSE disk)
                      /\ exitCode' = 1
                /\ (SumAnswerWith(k) /\ pc' = "exited") =>
                      /\ disk' = (IF k \in {"y", "Y"} THEN sumDel ELSE disk)
                      /\ exitCode' = 1
          /\ (pc = "verifyGPGSignature" /\ pc' = "exited") =>
                (options.unattended /\ disk' = sigDel /\ exitCode' = 1)
          /\ (pc = "verifyMD5Sum" /\ pc' = "exited" /\ failure' = "checksum") =>
                (options.unattended /\ disk' = sumDel /\ exitCode' = 1)
          /\ pc' \in {"gpg_prompt", "sum_prompt"} => disk' = disk
      ]_vars

\* the operator accepted the offer after a checksum mismatch: artifact and digest
\* file are gone
C18_Witness ==
    /\ failure = "checksum"
    /\ ~options.unattended
    /\ pc = "exited"
    /\ disk.pkg = "absent"
    /\ ~disk.sha.exists

\* the operator declined the offer after a signature failure: all three files stay
C18_WitnessDeclined ==
    /\ failure = "signature"
    /\ ~options.unattended
    /\ pc = "exited"
    /\ disk.pkg # "absent" /\ disk.sums.exists /\ disk.asc

----------------------------------------------------------------------------
(* The rewriting step on its own: the digest file is written from one selected *)
(* manifest line and the step is then applied again to the file it wrote      *)

\* how many times the step is applied to the same digest file
MaxRewrites == 3

\* what awk '{print $2}' of the directory listing may yield as packageFilename
ArtifactNames ==
    {<<"package.tar.bz2">>, <<"firefox-1.1", ".tar.bz2">>, <<>>, <<"a", "&", "b">>}

\* lines that pass the grep chain, in the layouts the release server has used
SelectedTextLines(package, name) ==
    IF package = "seamonkey"
    THEN {<<d, Space, "md5", Space, "<size>", Space, DirPiece>> \o name : d \in Digests}
           \cup {<<d, Space, "md5", Space, "<size>", Space, "./", DirPiece>> \o name :
                    d \in Digests}
    ELSE {<<d, Space, Space, "./", DirPiece, "<remote file>">> : d \in Digests}
           \cup {<<d, Space, "sha512", Space, "<size>", Space, DirPiece, "<remote file>">> :
                    d \in Digests}
           \cup {<<DirPiece, "<remote file>">>}

InitRewrite ==
    /\ options \in {o \in OptionSets : /\ o.action = "builddeb" /\ ~o.skipgpg
                                       /\ ~o.unattended /\ ~o.test
                                       /\ o.mirrors = DefaultMirrors}
    /\ pc = "rewrite"
    /\ attrs = {"packageFilename", "sigFilename"}
    /\ releaseVersion = <<"1", ".", "1">>
    /\ confirmed = TRUE
    /\ packageFilename \in ArtifactNames
    /\ sigFilename = ""
    /\ fetch = IdleFetch
    /\ keyloop = IdleKeys
    /\ disk \in {[pkg |-> "d1", sums |-> File(<<l>>), asc |-> TRUE, sha |-> NoFile,
                  debdir |-> FALSE, deb |-> FALSE] :
                    l \in SelectedTextLines(options.package, packageFilename)}
    /\ expected = <<>>
    /\ rc = [gpg |-> -1, sum |-> -1]
    /\ calls = <<>>
    /\ commands = {}
    /\ stdout = <<>>
    /\ exitCode = -1
    /\ failure = "none"

\* the rewriting step of the package: awk for the SHA512SUMS line, sed for seamonkey
RewriteLine(line) ==
    IF IsSeamonkey(options) THEN SedText(line) ELSE AwkRewrite(line, packageFilename)

MapRewriteLine(ls) == [i \in 1..Len(ls) |-> RewriteLine(ls[i])]

\* the selected manifest line is rewritten into the digest file
RewriteManifestLine ==
    /\ pc = "rewrite"
    /\ ~disk.sha.exists
    /\ disk' = [disk EXCEPT !.sha = File(MapRewriteLine(disk.sums.lines))]
    /\ expected' = MapRewriteLine(disk.sums.lines)
    /\ calls' = Append(calls, "rewrite")
    /\ UNCHANGED <<options, pc, attrs, releaseVersion, confirmed, packageFilename,
                   sigFilename, fetch, keyloop, rc, commands, stdout, exitCode, failure>>

\* the step is applied to the lines of the digest file it wrote
RewriteDigestFile ==
    /\ pc = "rewrite"
    /\ disk.sha.exists
    /\ Len(calls) < MaxRewrites
    /\ disk' = [disk EXCEPT !.sha = File(MapRewriteLine(disk.sha.lines))]
    /\ calls' = Append(calls, "rewrite")
    /\ UNCHANGED <<options, pc, attrs, releaseVersion, confirmed, packageFilename,
                   sigFilename, fetch, keyloop, expected, rc, commands, stdout,
                   exitCode, failure>>

NextRewrite == RewriteManifestLine \/ RewriteDigestFile

SpecRewrite == InitRewrite /\ [][NextRewrite]_vars

\* a name that is not empty and holds no & (awk's matched-text marker)
PlainName(n) == n # <<>> /\ \A i \in 1..Len(n) : n[i] # "&"

C20_DigestFileFromThisRun ==
    (pc = "verifyMD5Sum" \/ Called("verifyMD5Sum")) =>
        (disk.sha.exists => disk.sha.lines = expected)

\* C21: the attempts of one fetch each run the template with the placeholder
\* replaced by the mirror of that attempt, and (the mirrors of the list being
\* pairwise distinct) no two attempts of a fetch run the same command.
C21_AttemptsTargetDistinctSources ==
    fetch.what \in RobustKinds =>
        /\ \A i \in 1..Len(fetch.tried) :
              fetch.tried[i].cmd = ReSub(options.mirrors[i], fetch.template)
        /\ \A i, j \in 1..Len(fetch.tried) :
              i # j => fetch.tried[i].cmd # fetch.tried[j].cmd

\* C22: cleanup never ends in an exception of its own (an attribute that was never
\* set, a file that is not there), under action cleanup as under action all; and
\* once its rm -rf has run and the method has returned, the deb directory, the
\* artifact and the digest file are gone.
C22_CleanupCompletes ==
    LastCall = "cleanup" =>
        /\ failure # "crash"
        /\ ("rm -rf" \in commands /\ failure = "none" /\ pc # "cleanup_prompt") =>
              (~disk.debdir /\ disk.pkg = "absent" /\ ~disk.sha.exists)

\* the order of the stages, by the methods and steps that carry them out
StageOrder ==
    <<"welcome", "getLatestVersion", "printVersion", "confirmLatestVersion",
      "downloadPackage", "downloadGPGSignature", "getMozillaGPGKey", "getMD5Sum",
      "verifyGPGSignature", "verifyMD5Sum", "createDebStructure", "extractArchive",
      "createSymlinks", "createMenuItem", "createDeb", "createRepository",
      "syncRepository", "cleanup", "printSuccessMessage">>

Rank(m) == CHOOSE i \in 1..Len(StageOrder) : StageOrder[i] = m

\* C23: the methods entered so far were entered in the order resolve, confirm,
\* download artifact, keys, manifest and signature, signature check, digest
\* extraction, checksum comparison, staging, build, publish, upload, cleanup,
\* each at most once; the steps inside a stage happen only while that stage is
\* the last one entered and in its own order; and a mirror loop is in progress
\* only while control is in it, so that one command runs at a time.
C23_StagesInOrder ==
    /\ \A i, j \in 1..Len(calls) : i < j => Rank(calls[i]) < Rank(calls[j])
    /\ pc \in {"confirm_prompt", "enter_version", "override_prompt"} =>
          LastCall = "confirmLatestVersion"
    /\ pc = "probe" => LastCall = "downloadPackage"
    /\ pc = "import" => LastCall = "getMozillaGPGKey"
    /\ pc \in {"download_asc", "sed"} => LastCall = "getMD5Sum"
    /\ pc = "robustDownload" => LastCall \in {"downloadPackage", "getMD5Sum"}
    /\ pc = "download_asc" => disk.sums.exists
    /\ pc = "verifyGPGSignature" =>
          (LastCall = "getMD5Sum" /\ disk.sums.exists /\ disk.asc /\ rc.gpg = -1)
    /\ pc \in {"gpg_prompt", "extract"} => LastCall = "verifyGPGSignature"
    /\ pc = "extract" => (rc.gpg = 0 /\ rc.sum = -1)
    /\ pc = "verifyMD5Sum" => (disk.sha.exists /\ rc.sum = -1 /\ ~disk.sums.exists)
    /\ pc = "sum_prompt" => LastCall = "verifyMD5Sum"
    /\ pc = "repo_prompt" => LastCall = "createRepository"
    /\ pc = "sync_prompt" => LastCall = "syncRepository"
    /\ pc = "cleanup_prompt" => LastCall = "cleanup"
    /\ fetch.result = "running" <=> pc \in {"probe", "robustDownload"}
    /\ (Called("createRepository") /\ options.action = "all") =>
          ("dpkg-deb" \in commands \/ options.test)

\* a thunderbird run of action all that imported the keys and went through every
\* stage to the success message
C23_Witness ==
    /\ Completed
    /\ options.action = "all"
    /\ options.package = "thunderbird"
    /\ ~options.skipgpg
    /\ "gpg --recv" \in commands
    /\ Len(calls) = 18
    /\ LastCall = "printSuccessMessage"

\* C24: in an unattended run no step of the cleanup stage, from the call of
\* cleanup until start() moves on, changes the staging tree, the artifact or the
\* digest file, issues a command or stops at the KEEP question; this holds for
\* action cleanup and action all alike.
C24_UnattendedCleanupKeeps ==
    [][(options.unattended /\ (pc = "cleanup" \/ LastCall = "cleanup")) =>
          /\ disk' = disk
          /\ commands' = commands
          /\ pc' # "cleanup_prompt"
          /\ failure' = failure]_vars

\* an unattended run of action all that has gone through cleanup and finished
\* with the staging tree, the artifact and the digest file still in place
C24_Witness ==
    /\ options.unattended
    /\ options.action = "all"
    /\ Completed
    /\ Called("cleanup")
    /\ disk.debdir
    /\ disk.pkg # "absent"
    /\ disk.sha.exists
    /\ "rm -rf" \notin commands

\* the same for action cleanup, where no earlier stage created anything
C24_WitnessCleanupOnly ==
    /\ options.unattended
    /\ options.action = "cleanup"
    /\ Completed
    /\ Called("cleanup")
    /\ commands = {}

----------------------------------------------------------------------------
(* The unattended run under a scheduler.  With --unattended askyesno never   *)
(* calls input(), so the steps that wait for the operator's answer to a      *)
(* yes/no question are no steps of this run; check_uid still asks root.  The *)
(* process is never starved and every command it starts comes back           *)
(* (execSystemCommand and getSystemOutput return or raise), which is weak    *)
(* fairness of the run's next step.                                          *)

InitUnattended == Init /\ options.unattended

NextUnattended ==
    \/ CheckUid
    \/ UidAnswer
    \/ Begin
    \/ Welcome
    \/ GetLatestVersion
    \/ PrintVersion
    \/ ConfirmLatestVersion
    \/ DownloadPackage
    \/ ProbeAttempt
    \/ RobustDownloadAttempt
    \/ DownloadGPGSignature
    \/ GetMozillaGPGKey
    \/ ImportAttempt
    \/ GetMD5Sum
    \/ DownloadAsc
    \/ SedDigestFile
    \/ VerifyGPGSignature
    \/ ExtractDigest
    \/ VerifyMD5Sum
    \/ CreateDebStructure
    \/ ExtractArchive
    \/ CreateSymlinks
    \/ CreateMenuItem
    \/ CreateDeb
    \/ CreateRepository
    \/ SyncRepository
    \/ Cleanup
    \/ PrintSuccessMessage

SpecUnattended == InitUnattended /\ [][NextUnattended]_vars /\ WF_vars(NextUnattended)

\* C25: an unattended run of a regular user, for every action and variant,
\* reaches the end of the process; on the way no mirror loop makes more attempts
\* than there are mirrors and the key import makes at most 5 attempts per
\* keyserver.
C25_UnattendedTerminates ==
    /\ [](options.unattended =>
             /\ Len(fetch.tried) <= Len(options.mirrors)
             /\ Len(keyloop.tried) <= 5 * Len(options.keyservers))
    /\ (options.unattended /\ pc = "start") ~> (pc = "exited")

\* an unattended run that ended after the key import had made all of its 5
\* attempts at every keyserver
C25_Witness ==
    /\ options.unattended
    /\ pc = "exited"
    /\ Len(keyloop.tried) = 5 * Len(options.keyservers)

\* an unattended run that ended after a fetch had tried every one of three mirrors
C25_WitnessMirrors ==
    /\ options.unattended
    /\ pc = "exited"
    /\ Len(options.mirrors) = 3
    /\ Len(fetch.tried) = Len(options.mirrors)
    /\ fetch.what \in RobustKinds

\* an unattended run of action all that went through every stage to its end
C25_WitnessAll ==
    /\ options.unattended
    /\ options.action = "all"
    /\ Completed
    /\ Called("printSuccessMessage")

----------------------------------------------------------------------------
(* UtilityFunctions.getSystemOutput and the child it starts.  Popen connects *)
(* the child's stdout (and stderr) to a pipe of bounded capacity; the parent *)
(* calls p.wait() and only then p.stdout.readlines().  In this specification *)
(* `commands` holds the command line, `expected` the lines the child has yet *)
(* to write, `stdout` the lines in the pipe, `exitCode` the child's status   *)
(* (-1 while it runs), `releaseVersion` the value returned, and `pc` the     *)
(* parent's position.                                                        *)

\* lines the pipe holds before a write to it blocks
PipeCapacity == 2

\* longest output of a child, in lines
MaxOutput == 3

OutputLines == {"a line", "w3m: Can't load"}

CommandLines == {{"wget | grep"}, {"curl | w3m | grep | awk"}}

InitPipe ==
    /\ options \in {o \in OptionSets : /\ o.action = "getversion" /\ o.package = "firefox"
                                       /\ ~o.skipgpg /\ o.unattended /\ ~o.test
                                       /\ o.mirrors = DefaultMirrors}
    /\ pc = "Popen"
    /\ attrs = {}
    /\ releaseVersion = <<>>
    /\ confirmed = FALSE
    /\ packageFilename = ""
    /\ sigFilename = ""
    /\ fetch = IdleFetch
    /\ keyloop = IdleKeys
    /\ disk = [pkg |-> "absent", sums |-> NoFile, asc |-> FALSE, sha |-> NoFile,
               debdir |-> FALSE, deb |-> FALSE]
    /\ expected \in SeqsUpTo(OutputLines, MaxOutput)
    /\ rc = [gpg |-> -1, sum |-> -1]
    /\ calls = <<>>
    /\ commands \in CommandLines
    /\ stdout = <<>>
    /\ exitCode = -1
    /\ failure = "none"

\* the child has not exited
ChildRunning == pc # "Popen" /\ exitCode = -1

\* the child is in a write() that the full pipe does not accept
ChildBlocked == ChildRunning /\ expected # <<>> /\ Len(stdout) >= PipeCapacity

\* the parent is in p.wait() and the child has not exited
ParentBlocked == pc = "wait" /\ exitCode = -1

\* p = subprocess.Popen(..., stdout=subprocess.PIPE, stderr=subprocess.STDOUT)
Popen ==
    /\ pc = "Popen"
    /\ pc' = "wait"
    /\ calls' = Append(calls, "Popen")
    /\ UNCHANGED <<options, attrs, releaseVersion, confirmed, packageFilename,
                   sigFilename, fetch, keyloop, disk, expected, rc, commands, stdout,
                   exitCode, failure>>

\* the child writes its next line into the pipe, when the pipe has room
ChildWrite ==
    /\ ChildRunning
    /\ expected # <<>>
    /\ Len(stdout) < PipeCapacity
    /\ stdout' = Append(stdout, Head(expected))
    /\ expected' = Tail(expected)
    /\ UNCHANGED <<options, pc, attrs, releaseVersion, confirmed, packageFilename,
                   sigFilename, fetch, keyloop, disk, rc, calls, commands, exitCode,
                   failure>>

\* the child has written all its output and exits with some status
ChildExit ==
    /\ ChildRunning
    /\ expected = <<>>
    /\ exitCode' \in {0, 1}
    /\ UNCHANGED <<options, pc, attrs, releaseVersion, confirmed, packageFilename,
                   sigFilename, fetch, keyloop, disk, expected, rc, calls, commands,
                   stdout, failure>>

\* returncode = p.wait() returns once the child has exited
Wait ==
    /\ pc = "wait"
    /\ exitCode # -1
    /\ pc' = "readlines"
    /\ calls' = Append(calls, "wait")
    /\ UNCHANGED <<options, attrs, releaseVersion, confirmed, packageFilename,
                   sigFilename, fetch, keyloop, disk, expected, rc, commands, stdout,
                   exitCode, failure>>

\* the status after the w3m check of lines 112-116
ReturnCode(commandline, result, status) ==
    IF /\ commandline = {"curl | w3m | grep | awk"}
       /\ (Len(result) = 0 \/ result[1] = "w3m: Can't load")
    THEN 1 ELSE status

\* result = p.stdout.readlines(), then raise or return result[0] (numlines=1)
Readlines ==
    /\ pc = "readlines"
    /\ calls' = Append(calls, "readlines")
    /\ stdout' = <<>>
    /\ LET result == stdout
           returncode == ReturnCode(commands, result, exitCode)
       IN IF returncode # 0
          THEN /\ pc' = "raised"
               /\ failure' = "tool"
               /\ UNCHANGED releaseVersion
          ELSE IF Len(result) = 0
          THEN /\ pc' = "raised"
               /\ failure' = "crash"
               /\ UNCHANGED releaseVersion
          ELSE /\ pc' = "returned"
               /\ releaseVersion' = <<result[1]>>
               /\ UNCHANGED failure
    /\ UNCHANGED <<options, attrs, confirmed, packageFilename, sigFilename, fetch,
                   keyloop, disk, expected, rc, commands, exitCode>>

NextPipe ==
    \/ Popen
    \/ ChildWrite
    \/ ChildExit
    \/ Wait
    \/ Readlines

SpecPipe == InitPipe /\ [][NextPipe]_vars

\* C26: while getSystemOutput runs, the parent is never waiting for the child's
\* exit while the child waits for room in the pipe, whatever the size of the
\* child's output.
C26_NeverBothBlocked == ~(ParentBlocked /\ ChildBlocked)

====
